---- MODULE Spec2Model ----
(***************************************************************************)
(* Module selection ledger of the course review portal                     *)
(* (app/routers/modules.py, app/routers/submissions.py, app/models.py,     *)
(* app/database.py).                                                       *)
(*                                                                         *)
(* The relational store is modelled by its committed contents:            *)
(*   users                  -> role, selected_module_id, selected_at      *)
(*   modules                -> modules (visibility, max_reviewers,        *)
(*                             max_students per existing id)              *)
(*   user_module_selections -> sel (per user, the rows in insertion       *)
(*                             order, which is the order of selected_at)  *)
(*   submissions            -> submissions (bag of the rows' triples)     *)
(* Every handler runs in one SQLAlchemy session created with              *)
(* autoflush=False; an action is one whole request, from its first query  *)
(* to db.commit() or to the HTTPException that ends it.                   *)
(* Columns no handler of the ledger branches on (names, last_notified_    *)
(* version, drive ids) are left out.                                      *)
(***************************************************************************)
EXTENDS Integers, Sequences, FiniteSets, Bags, TLC

\* ------------------------------------------------------------------ bounds
NumUsers == 2
NumModules == 3
\* rows the submissions table may hold in a run
MaxSubmissions == 1
\* rows it may hold in the runs that follow the submissions themselves
MaxSubmissionRows == 2
\* requests that may be in flight at once (database sessions of get_db)
NumSessions == 2

Users == 1..NumUsers
Sessions == 1..NumSessions
Modules == 1..NumModules
\* an id no row of the modules table has (ids are positive)
MissingId == NumModules + 1
RequestIds == Modules \cup {MissingId}

\* Python None / SQL NULL in an integer column (ids and limits are >= 0)
NULL == 0 - 1
\* users.selected_at: None, or the value of datetime.utcnow() (the ledger only
\* ever tests it for null)
NoTime == "None"
Now == "utcnow"

UserRole == {"reviewer", "student", "admin"}
ModuleVisibility == {"draft", "pilot_review", "active", "archived"}
SubmissionTypes == {"in_class", "homework"}

\* ----------------------------------------------------------------- catalog
\* The module table the runs start from: visibility and limits by id.
VisibilityPattern == <<"active", "pilot_review", "active", "draft", "archived">>
MaxReviewersPattern == <<1, NULL, 0, 2, NULL>>
MaxStudentsPattern == <<1, NULL, NULL, 2, 0>>

PatternAt(p, m) == p[((m - 1) % Len(p)) + 1]

InitModules ==
    [m \in Modules |->
        [visibility |-> PatternAt(VisibilityPattern, m),
         max_reviewers |-> PatternAt(MaxReviewersPattern, m),
         max_students |-> PatternAt(MaxStudentsPattern, m)]]

\* ------------------------------------------------------------------- state
VARIABLES
    role,                \* users.role
    modules,             \* modules table: id -> row
    sel,                 \* user_module_selections: user -> rows by selected_at
    selected_module_id,  \* users.selected_module_id (legacy pointer)
    selected_at,         \* users.selected_at
    submissions,         \* submissions table: bag of <<user, module, type>>
    last,                \* the request served last and its response
    session              \* requests in flight: what each open session has read

vars ==
    <<role, modules, sel, selected_module_id, selected_at, submissions, last,
      session>>

ledger == <<sel, selected_module_id, selected_at>>

\* ----------------------------------------------------------------- helpers
Row(m, a) == [module_id |-> m, is_active |-> a]

HeldIn(s, u) == {s[u][i].module_id : i \in DOMAIN s[u]}
Held(u) == HeldIn(sel, u)
ActiveIn(s, u) == {i \in DOMAIN s[u] : s[u][i].is_active}

\* Python truthiness of an Optional[int] column value
Truthy(x) == x # NULL /\ x # 0

RECURSIVE Without(_, _)
Without(rows, m) ==
    IF rows = <<>> THEN <<>>
    ELSE IF Head(rows).module_id = m THEN Without(Tail(rows), m)
    ELSE <<Head(rows)>> \o Without(Tail(rows), m)

\* db.query(UserModuleSelection).filter(user_id == u).update({is_active: False})
Deactivated(rows) == [i \in DOMAIN rows |-> Row(rows[i].module_id, FALSE)]

\* remaining.is_active = True on the row of module m
Activated(rows, m) ==
    [i \in DOMAIN rows |->
        IF rows[i].module_id = m THEN Row(m, TRUE) ELSE rows[i]]

\* func.count(UserModuleSelection.id).join(User).filter(module_id == m, User.role == r)
RoleCount(s, rl, m, r) ==
    Cardinality({u \in Users : rl[u] = r /\ m \in HeldIn(s, u)})

\* what the model keeps of the request served last: the handler, the caller
\* and the response
Response(op, u, res) == [op |-> op, user |-> u, res |-> res]

\* ------------------------------------------------------- policy (pure code)
\* Faulty variant of can_user_view_module: the draft test left out, so that a
\* draft falls through to the last return, which admits reviewers
can_user_view_moduleDraftOpen(r, visibility) ==
    IF r = "admin" THEN TRUE
    ELSE IF visibility = "archived" THEN FALSE
    ELSE IF visibility = "active" THEN TRUE
    ELSE r = "reviewer"

\* modules.py can_user_view_module
can_user_view_module(r, visibility) ==
    IF r = "admin" THEN TRUE
    ELSE IF visibility = "archived" THEN FALSE
    ELSE IF visibility = "draft" THEN FALSE
    ELSE IF visibility = "active" THEN TRUE
    ELSE IF visibility = "pilot_review" THEN r = "reviewer"
    ELSE FALSE

\* select_module: max_modules = 2 if user.role == UserRole.reviewer else 1
max_modules(r) == IF r = "reviewer" THEN 2 ELSE 1

\* Faulty variant of LimitReached: the test off by one, > instead of >=
LimitReachedOffByOne(r, current_selections) == current_selections > max_modules(r)

\* select_module: if current_selections >= max_modules: raise
LimitReached(r, current_selections) == current_selections >= max_modules(r)

\* select_module: "if module.max_reviewers and reviewer_count >= module.max_reviewers"
\* (and the same test on max_students): limit is the column value, count the
\* number of selection rows of that role on the module
AtCapacity(limit, count) == Truthy(limit) /\ count >= limit

\* select_module, "# Check capacity": reviewers are counted against
\* max_reviewers; every other role (students and admins) takes the else branch,
\* which counts student rows against max_students
SelectFull(s, rl, mods, u, m) ==
    IF rl[u] = "reviewer"
    THEN AtCapacity(mods[m].max_reviewers, RoleCount(s, rl, m, "reviewer"))
    ELSE AtCapacity(mods[m].max_students, RoleCount(s, rl, m, "student"))

\* swap_module, "# Check capacity of new module": whatever the caller's role,
\* reviewer rows are counted against max_reviewers
SwapFull(s, rl, mods, u, m) ==
    AtCapacity(mods[m].max_reviewers, RoleCount(s, rl, m, "reviewer"))

\* release_module / swap_module: a Submission(user, module, "homework") exists
HomeworkSubmitted(subs, u, m) == BagIn(<<u, m, "homework">>, subs)

\* ------------------------------------------------------------ row effects
\* Faulty variant of SelectRows: the bulk update left out
SelectRowsNoDeactivate(rows, m) == Append(rows, Row(m, TRUE))

\* select_module: bulk update is_active=False, then db.add(selection)
SelectRows(rows, m) == Append(Deactivated(rows), Row(m, TRUE))

\* Faulty variant of SelectCommitted: the bulk deactivation placed before the
\* capacity test, so that a "module full" denial leaves the rows deactivated
SelectCommittedEarlyDeactivate(res, rows, m) ==
    IF res = "ok" THEN SelectRows(rows, m)
    ELSE IF res = "ModuleFull" THEN Deactivated(rows)
    ELSE rows

\* select_module: every HTTPException (lines 152-217) is raised before the
\* first write (line 220), so only a request that reaches db.commit() changes
\* the caller's rows
SelectCommitted(res, rows, m) ==
    IF res = "ok" THEN SelectRows(rows, m) ELSE rows

\* Faulty variant of SwitchRows: the bulk update left out
SwitchRowsNoDeactivate(rows, m) == Activated(rows, m)

\* switch_to_module: bulk update is_active=False, then selection.is_active = True
SwitchRows(rows, m) == Activated(Deactivated(rows), m)

\* Faulty variant of SwapRows: the bulk update left out
SwapRowsNoDeactivate(rows, rel, m) == Append(Without(rows, rel), Row(m, TRUE))

\* swap_module: db.delete(release_selection), bulk update is_active=False,
\* db.add(new_selection); the flush at commit leaves these rows
SwapRows(rows, rel, m) == Append(Deactivated(Without(rows, rel)), Row(m, TRUE))

\* swap_module: every HTTPException (lines 427-475) is raised before the first
\* write (line 478); an IntegrityError at db.commit() leaves the transaction
\* uncommitted and get_db closes the session, which rolls it back
SwapCommitted(res, rows, rel, m) ==
    IF res = "ok" THEN SwapRows(rows, rel, m) ELSE rows

\* database.py SessionLocal: autoflush=False, so the db.delete(selection) of
\* release_module is still pending when the next query runs, and that query
\* reads the user's rows with the row of m among them
RowsSeenAfterDelete(rows, m) == rows

\* release_module: remaining = db.query(UserModuleSelection)
\*     .filter(user_id == user.id).first()
\* The query has no ORDER BY: it may return any row it sees (NULL: none)
RemainingCandidates(rows, m) ==
    LET seen == RowsSeenAfterDelete(rows, m)
    IN IF seen = <<>> THEN {NULL}
       ELSE {seen[i].module_id : i \in DOMAIN seen}

\* release_module after commit: the row of m is deleted; remaining.is_active
\* = True reaches the table only if remaining is not the deleted row itself
ReleaseRows(rows, m, remaining) ==
    IF remaining = NULL \/ remaining = m THEN Without(rows, m)
    ELSE Activated(Without(rows, m), remaining)

\* ---------------------------------------------------------------- outcomes
\* The response of each handler: "ok", or the HTTPException that ends it.
\* Faulty variant of SelectOutcome: no "already selected" test
SelectOutcomeNoExistingCheck(u, m) ==
    IF m \notin DOMAIN modules THEN "NotFound"
    ELSE IF ~can_user_view_module(role[u], modules[m].visibility) THEN "AccessDenied"
    ELSE IF LimitReached(role[u], Len(sel[u])) THEN "LimitReached"
    ELSE IF SelectFull(sel, role, modules, u, m) THEN "ModuleFull"
    ELSE "ok"

\* Faulty variant of SelectOutcome: the capacity test placed before the limit
SelectOutcomeCapacityFirst(u, m) ==
    IF m \notin DOMAIN modules THEN "NotFound"
    ELSE IF ~can_user_view_module(role[u], modules[m].visibility) THEN "AccessDenied"
    ELSE IF m \in Held(u) THEN "AlreadySelected"
    ELSE IF SelectFull(sel, role, modules, u, m) THEN "ModuleFull"
    ELSE IF LimitReached(role[u], Len(sel[u])) THEN "LimitReached"
    ELSE "ok"

SelectOutcome(u, m) ==
    IF m \notin DOMAIN modules THEN "NotFound"
    ELSE IF ~can_user_view_module(role[u], modules[m].visibility) THEN "AccessDenied"
    ELSE IF m \in Held(u) THEN "AlreadySelected"
    ELSE IF LimitReached(role[u], Len(sel[u])) THEN "LimitReached"
    ELSE IF SelectFull(sel, role, modules, u, m) THEN "ModuleFull"
    ELSE "ok"

ReleaseOutcome(u, m) ==
    IF m \notin Held(u) THEN "NotSelected"
    ELSE IF ~HomeworkSubmitted(submissions, u, m) THEN "ReleaseBlocked"
    ELSE "ok"

\* Faulty variant of SwitchOutcome: the visibility test of select_module added
SwitchOutcomeVisibilityCheck(u, m) ==
    IF m \notin Held(u) THEN "NotSelected"
    ELSE IF ~can_user_view_module(role[u], modules[m].visibility) THEN "AccessDenied"
    ELSE "ok"

SwitchOutcome(u, m) ==
    IF m \notin Held(u) THEN "NotSelected" ELSE "ok"

\* Faulty variant of SwapOutcome: the homework test left out
SwapOutcomeNoHomeworkCheck(u, m, rel) ==
    IF m \notin DOMAIN modules THEN "NotFound"
    ELSE IF ~can_user_view_module(role[u], modules[m].visibility) THEN "AccessDenied"
    ELSE IF rel \notin Held(u) THEN "ReleaseNotFound"
    ELSE IF SwapFull(sel, role, modules, u, m) THEN "ModuleFull"
    ELSE IF m \in Held(u) THEN "IntegrityError"
    ELSE "ok"

\* swap_module has no "already selected" test: when the user already holds m,
\* the INSERT of the flush breaks uq_user_module_selection (the unit of work
\* inserts before it deletes, so also when m = rel), commit raises
\* IntegrityError and the session is closed without a commit
SwapOutcome(u, m, rel) ==
    IF m \notin DOMAIN modules THEN "NotFound"
    ELSE IF ~can_user_view_module(role[u], modules[m].visibility) THEN "AccessDenied"
    ELSE IF rel \notin Held(u) THEN "ReleaseNotFound"
    ELSE IF ~HomeworkSubmitted(submissions, u, rel) THEN "ReleaseBlocked"
    ELSE IF SwapFull(sel, role, modules, u, m) THEN "ModuleFull"
    ELSE IF m \in Held(u) THEN "IntegrityError"
    ELSE "ok"

\* submit_assignment with a well-formed form ("not user.selected_module_id" is
\* Python truthiness; ids are positive)
SubmitOutcome(u) ==
    IF ~Truthy(selected_module_id[u]) THEN "NoModuleSelected"
    ELSE IF selected_module_id[u] \notin DOMAIN modules THEN "NotFound"
    ELSE "ok"

\* a session of get_db between requests
Idle == [pc |-> "idle", user |-> NULL, module |-> NULL, seen |-> NULL]

\* a request that has passed every test of its handler and has yet to write
InFlight(op, u, m) == [pc |-> op, user |-> u, module |-> m, seen |-> NULL]

\* a select_module past its tests: seen is the number of rows the caller had
\* when the tests ran (rows are kept in the order of their commits)
InFlightSelect(u, m, seen) == [pc |-> "select", user |-> u, module |-> m, seen |-> seen]

\* ----------------------------------------------------------------- actions
\* Users differ only in their role, so the runs start from the role
\* assignments that are sorted by RoleRank: every other assignment is one of
\* these with the users renamed
RoleRank(r) == CASE r = "reviewer" -> 1 [] r = "student" -> 2 [] r = "admin" -> 3

InitRoles ==
    {f \in [Users -> UserRole] :
        \A u, v \in Users : u < v => RoleRank(f[u]) <= RoleRank(f[v])}

Init ==
    /\ role \in InitRoles
    /\ modules = InitModules
    /\ sel = [u \in Users |-> <<>>]
    /\ selected_module_id = [u \in Users |-> NULL]
    /\ selected_at = [u \in Users |-> NoTime]
    /\ submissions = EmptyBag
    /\ last = Response("none", NULL, "ok")
    /\ session = [s \in Sessions |-> Idle]

\* POST /modules/{module_id}/select
Select(u, m) ==
    LET res == SelectOutcome(u, m) IN
    /\ last' = Response("select", u, res)
    /\ sel' = [sel EXCEPT ![u] = SelectCommitted(res, @, m)]
    /\ IF res = "ok"
       THEN /\ selected_module_id' = [selected_module_id EXCEPT ![u] = m]
            /\ selected_at' = [selected_at EXCEPT ![u] = Now]
       ELSE UNCHANGED <<selected_module_id, selected_at>>
    /\ UNCHANGED <<role, modules, submissions, session>>

\* POST /modules/{module_id}/release
Release(u, m) ==
    LET res == ReleaseOutcome(u, m) IN
    /\ last' = Response("release", u, res)
    /\ IF res = "ok"
       THEN \E remaining \in RemainingCandidates(sel[u], m) :
            /\ sel' = [sel EXCEPT ![u] = ReleaseRows(@, m, remaining)]
            /\ selected_module_id' = [selected_module_id EXCEPT ![u] = remaining]
            /\ selected_at' =
                   IF remaining = NULL
                   THEN [selected_at EXCEPT ![u] = NoTime]
                   ELSE selected_at
       ELSE UNCHANGED ledger
    /\ UNCHANGED <<role, modules, submissions, session>>

\* POST /modules/{module_id}/switch
Switch(u, m) ==
    LET res == SwitchOutcome(u, m) IN
    /\ last' = Response("switch", u, res)
    /\ IF res = "ok"
       THEN /\ sel' = [sel EXCEPT ![u] = SwitchRows(@, m)]
            /\ selected_module_id' = [selected_module_id EXCEPT ![u] = m]
            /\ UNCHANGED selected_at
       ELSE UNCHANGED ledger
    /\ UNCHANGED <<role, modules, submissions, session>>

\* POST /modules/{module_id}/swap with form field release_module_id
Swap(u, m, rel) ==
    LET res == SwapOutcome(u, m, rel) IN
    /\ last' = Response("swap", u, res)
    /\ sel' = [sel EXCEPT ![u] = SwapCommitted(res, @, rel, m)]
    /\ selected_module_id' =
           IF res = "ok"
           THEN [selected_module_id EXCEPT ![u] = m]
           ELSE selected_module_id
    /\ UNCHANGED selected_at
    /\ UNCHANGED <<role, modules, submissions, session>>

\* Faulty variant of Upsert: the lookup of the existing row left out
UpsertAlwaysInsert(subs, row) == subs (+) SetToBag({row})

\* submit_assignment, "# Check for existing submission": the row of the triple
\* is updated in place if the query finds one, else a new row is added
Upsert(subs, row) ==
    IF BagIn(row, subs) THEN subs ELSE subs (+) SetToBag({row})

\* POST /submit/{submission_type}: the submission goes to the module the
\* legacy pointer names; cap bounds the rows of the table in a run
SubmitWithin(u, t, cap) ==
    LET res == SubmitOutcome(u)
        row == <<u, selected_module_id[u], t>>
    IN
    /\ (res = "ok" /\ ~BagIn(row, submissions)) =>
           BagCardinality(submissions) < cap
    /\ last' = Response("submit", u, res)
    /\ submissions' = IF res = "ok" THEN Upsert(submissions, row) ELSE submissions
    /\ UNCHANGED <<role, modules, ledger, session>>

Submit(u, t) == SubmitWithin(u, t, MaxSubmissions)

Next ==
    \/ \E u \in Users, m \in RequestIds : Select(u, m)
    \/ \E u \in Users, m \in Modules : Release(u, m)
    \/ \E u \in Users, m \in Modules : Switch(u, m)
    \/ \E u \in Users, m \in RequestIds, rel \in Modules : Swap(u, m, rel)
    \/ \E u \in Users, t \in SubmissionTypes : Submit(u, t)

Spec == Init /\ [][Next]_vars

\* ------------------------------------------------- requests that interleave
\* Two requests are two sessions and two transactions.  The handlers take no
\* lock (no with_for_update, no advisory lock) and the engine runs at the
\* default isolation level (database.py create_engine), under which a query
\* reads what is committed when it runs.  select_module is therefore split
\* where another request can come between: after its last test (lines
\* 152-217) and before its writes (lines 219-238), which other sessions see
\* only at db.commit().  The bulk UPDATE ... SET is_active = false runs at some
\* point between the tests and the commit and changes the rows of the caller
\* that are committed at that point: the rows the tests saw, and any prefix of
\* the rows another request of the same caller has committed since.

\* the bulk update as it reaches the first `updated` rows only
DeactivatedPrefix(rows, updated) ==
    [i \in DOMAIN rows |->
        IF i <= updated THEN Row(rows[i].module_id, FALSE) ELSE rows[i]]

\* Faulty variant of SelectCommittedSeen: the bulk update committed on its own,
\* so that it outlives the failure of the INSERT
SelectCommittedSeenNoRollback(res, rows, m, updated) ==
    IF res = "ok" THEN Append(DeactivatedPrefix(rows, updated), Row(m, TRUE))
    ELSE DeactivatedPrefix(rows, updated)

\* the rows of the caller after db.commit(): on IntegrityError the session is
\* closed without a commit and the bulk update is undone with the rest
SelectCommittedSeen(res, rows, m, updated) ==
    IF res = "ok" THEN Append(DeactivatedPrefix(rows, updated), Row(m, TRUE))
    ELSE rows

\* select_module up to the capacity test, on the committed state
SelectBegin(s, u, m) ==
    LET res == SelectOutcome(u, m) IN
    /\ session[s] = Idle
    /\ IF res = "ok"
       THEN /\ session' = [session EXCEPT ![s] = InFlightSelect(u, m, Len(sel[u]))]
            /\ UNCHANGED last
       ELSE /\ last' = Response("select", u, res)
            /\ UNCHANGED session
    /\ UNCHANGED <<role, modules, ledger, submissions>>

\* select_module from the bulk update to db.commit(): the INSERT fails on
\* uq_user_module_selection if another session has committed the same pair
SelectEnd(s) ==
    LET u == session[s].user
        m == session[s].module
        res == IF m \in Held(u) THEN "IntegrityError" ELSE "ok"
    IN
    /\ session[s].pc = "select"
    /\ session' = [session EXCEPT ![s] = Idle]
    /\ last' = Response("select", u, res)
    /\ \E updated \in session[s].seen .. Len(sel[u]) :
           sel' = [sel EXCEPT ![u] = SelectCommittedSeen(res, @, m, updated)]
    /\ IF res = "ok"
       THEN /\ selected_module_id' = [selected_module_id EXCEPT ![u] = m]
            /\ selected_at' = [selected_at EXCEPT ![u] = Now]
       ELSE UNCHANGED <<selected_module_id, selected_at>>
    /\ UNCHANGED <<role, modules, submissions>>

NextRace ==
    \/ \E s \in Sessions, u \in Users, m \in RequestIds : SelectBegin(s, u, m)
    \/ \E s \in Sessions : SelectEnd(s)

SpecRace == Init /\ [][NextRace]_vars

\* ------------------------------------------------ catalogs of any visibility
\* Module.visibility holds any member of ModuleVisibility (the admin forms
\* write the enum value they are given).  The runs below start from every
\* assignment of visibilities to the modules, with the limits of InitModules,
\* and serve Select requests.
InitAnyVisibility ==
    /\ role \in InitRoles
    /\ \E vis \in [Modules -> ModuleVisibility] :
           modules = [m \in Modules |->
                         [InitModules[m] EXCEPT !.visibility = vis[m]]]
    /\ sel = [u \in Users |-> <<>>]
    /\ selected_module_id = [u \in Users |-> NULL]
    /\ selected_at = [u \in Users |-> NoTime]
    /\ submissions = EmptyBag
    /\ last = Response("none", NULL, "ok")
    /\ session = [s \in Sessions |-> Idle]

NextSelect == \E u \in Users, m \in RequestIds : Select(u, m)

SpecVisibility == InitAnyVisibility /\ [][NextSelect]_vars

\* ---------------------------------------------------------- module deletion
\* admin.py delete_module.  The handler deletes the submissions (with their
\* grades) and the notifications of the module and nulls the legacy pointers
\* that name it, each by a bulk statement, then db.delete(module).  It does not
\* touch user_module_selections.  Module.user_selections is a relationship
\* without a delete cascade (models.py line 124), so the flush at db.commit()
\* detaches the rows of the collection by setting their module_id to NULL;
\* the column is nullable=False (models.py line 238), the UPDATE fails,
\* commit raises IntegrityError and the session is closed without a commit.
DeleteOutcome(m) ==
    IF m \notin DOMAIN modules THEN "NotFound"
    ELSE IF \E u \in Users : m \in Held(u) THEN "IntegrityError"
    ELSE "ok"

\* POST /admin/modules/{module_id}/delete, by an admin a (require_admin)
DeleteModule(a, m) ==
    LET res == DeleteOutcome(m) IN
    /\ role[a] = "admin"
    /\ last' = Response("delete_module", a, res)
    /\ IF res = "ok"
       THEN /\ submissions' =
                   [row \in {x \in BagToSet(submissions) : x[2] # m} |->
                       submissions[row]]
            /\ selected_module_id' =
                   [u \in Users |->
                       IF selected_module_id[u] = m THEN NULL
                       ELSE selected_module_id[u]]
            /\ selected_at' =
                   [u \in Users |->
                       IF selected_module_id[u] = m THEN NoTime
                       ELSE selected_at[u]]
            /\ modules' = [x \in DOMAIN modules \ {m} |-> modules[x]]
       ELSE UNCHANGED <<submissions, selected_module_id, selected_at, modules>>
    /\ UNCHANGED <<role, sel, session>>

NextAdmin ==
    \/ Next
    \/ \E a \in Users, m \in RequestIds : DeleteModule(a, m)

SpecAdmin == Init /\ [][NextAdmin]_vars

\* ------------------------------------------------------ Slack notification
\* select_module and swap_module call notify_slack_new_reviewer after
\* db.commit() (modules.py lines 240-245 and 499-504).  The call is awaited, so
\* other requests are served between the commit and the end of the POST to
\* the webhook: the handler is split at the commit, and a session that has
\* committed holds pc = "notify" until send_slack_notification returns.

\* Faulty variant of NotifyDue: the call placed before the tests of the handler
NotifyDueAlways(res) == TRUE

\* the line of the notification is reached iff no exception was raised before
NotifyDue(res) == res = "ok"

\* slack.py send_slack_notification: no webhook configured (message printed,
\* nothing sent), the POST made, or httpx.RequestError caught and printed
SlackOutcomes == {"skipped", "posted", "RequestError"}

\* select_module from its first query to db.commit()
SelectServe(s, u, m) ==
    LET res == SelectOutcome(u, m) IN
    /\ session[s] = Idle
    /\ last' = Response("select", u, res)
    /\ sel' = [sel EXCEPT ![u] = SelectCommitted(res, @, m)]
    /\ IF res = "ok"
       THEN /\ selected_module_id' = [selected_module_id EXCEPT ![u] = m]
            /\ selected_at' = [selected_at EXCEPT ![u] = Now]
       ELSE UNCHANGED <<selected_module_id, selected_at>>
    /\ session' = IF NotifyDue(res)
                  THEN [session EXCEPT ![s] = InFlight("notify", u, m)]
                  ELSE session
    /\ UNCHANGED <<role, modules, submissions>>

\* swap_module from its first query to db.commit()
SwapServe(s, u, m, rel) ==
    LET res == SwapOutcome(u, m, rel) IN
    /\ session[s] = Idle
    /\ last' = Response("swap", u, res)
    /\ sel' = [sel EXCEPT ![u] = SwapCommitted(res, @, rel, m)]
    /\ selected_module_id' =
           IF res = "ok"
           THEN [selected_module_id EXCEPT ![u] = m]
           ELSE selected_module_id
    /\ session' = IF NotifyDue(res)
                  THEN [session EXCEPT ![s] = InFlight("notify", u, m)]
                  ELSE session
    /\ UNCHANGED <<role, modules, submissions, selected_at>>

\* await notify_slack_new_reviewer(...), then the redirect: the session ends
Notify(s) ==
    /\ session[s].pc = "notify"
    /\ \E outcome \in SlackOutcomes :
           last' = Response("notify", session[s].user, outcome)
    /\ session' = [session EXCEPT ![s] = Idle]
    /\ UNCHANGED <<role, modules, ledger, submissions>>

\* (of the submissions only the homework matters to swap_module)
NextNotify ==
    \/ \E s \in Sessions, u \in Users, m \in RequestIds : SelectServe(s, u, m)
    \/ \E s \in Sessions, u \in Users, m \in RequestIds, rel \in Modules :
           SwapServe(s, u, m, rel)
    \/ \E s \in Sessions : Notify(s)
    \/ \E u \in Users : Submit(u, "homework")

\* the event loop resumes a handler whose awaited POST has ended (timeout=10.0)
SpecNotify ==
    Init /\ [][NextNotify]_vars /\ \A s \in Sessions : WF_vars(Notify(s))

\* ------------------------------------------------------ visibility changes
\* admin.py change_visibility: 404 for a missing module, 400 for a value that
\* is not a ModuleVisibility, else module.visibility = the value; commit
InvalidVisibility == "invalid"

ChangeVisibilityOutcome(m, v) ==
    IF m \notin DOMAIN modules THEN "NotFound"
    ELSE IF v \notin ModuleVisibility THEN "InvalidVisibility"
    ELSE "ok"

\* POST /admin/modules/{module_id}/visibility, by an admin a (require_admin)
ChangeVisibility(a, m, v) ==
    LET res == ChangeVisibilityOutcome(m, v) IN
    /\ role[a] = "admin"
    /\ last' = Response("change_visibility", a, res)
    /\ modules' = IF res = "ok"
                  THEN [modules EXCEPT ![m].visibility = v]
                  ELSE modules
    /\ UNCHANGED <<role, ledger, submissions, session>>

\* selections and switches while an admin changes visibilities
NextSwitch ==
    \/ \E u \in Users, m \in RequestIds : Select(u, m)
    \/ \E u \in Users, m \in Modules : Switch(u, m)
    \/ \E a \in Users, m \in RequestIds,
          v \in ModuleVisibility \cup {InvalidVisibility} : ChangeVisibility(a, m, v)

SpecSwitch == Init /\ [][NextSwitch]_vars

\* -------------------------------------------------------------- submissions
\* selections, switches (which move the legacy pointer the submission is filed
\* under) and submissions of both types
NextSubmit ==
    \/ \E u \in Users, m \in Modules : Select(u, m)
    \/ \E u \in Users, m \in Modules : Switch(u, m)
    \/ \E u \in Users, t \in SubmissionTypes : SubmitWithin(u, t, MaxSubmissionRows)

SpecSubmit == Init /\ [][NextSubmit]_vars

\* --------------------------------------------------------- storage failure
\* Each handler writes inside one transaction (SessionLocal: autocommit=False)
\* and ends it with a single db.commit().  When the commit raises (connection
\* lost, constraint violated) the exception leaves the handler, get_db closes
\* the session and the database rolls the transaction back.  commit_ok is
\* whether the store accepts the commit.

\* Faulty variant of Commit: the statements already sent stay (autocommit)
CommitNoRollback(commit_ok, before, after) == after

\* the committed value of a part of the state after db.commit()
Commit(commit_ok, before, after) == IF commit_ok THEN after ELSE before

\* the response when the tests of the handler gave res
CommitOutcome(res, commit_ok) ==
    IF res = "ok" /\ ~commit_ok THEN "StorageError" ELSE res

SelectTx(u, m, commit_ok) ==
    LET res == SelectOutcome(u, m) IN
    /\ last' = Response("select", u, CommitOutcome(res, commit_ok))
    /\ IF res = "ok"
       THEN /\ sel' = Commit(commit_ok, sel,
                             [sel EXCEPT ![u] = SelectRows(@, m)])
            /\ selected_module_id' = Commit(commit_ok, selected_module_id,
                             [selected_module_id EXCEPT ![u] = m])
            /\ selected_at' = Commit(commit_ok, selected_at,
                             [selected_at EXCEPT ![u] = Now])
       ELSE UNCHANGED ledger
    /\ UNCHANGED <<role, modules, submissions, session>>

ReleaseTx(u, m, commit_ok) ==
    LET res == ReleaseOutcome(u, m) IN
    /\ last' = Response("release", u, CommitOutcome(res, commit_ok))
    /\ IF res = "ok"
       THEN \E remaining \in RemainingCandidates(sel[u], m) :
            /\ sel' = Commit(commit_ok, sel,
                             [sel EXCEPT ![u] = ReleaseRows(@, m, remaining)])
            /\ selected_module_id' = Commit(commit_ok, selected_module_id,
                             [selected_module_id EXCEPT ![u] = remaining])
            /\ selected_at' = Commit(commit_ok, selected_at,
                             IF remaining = NULL
                             THEN [selected_at EXCEPT ![u] = NoTime]
                             ELSE selected_at)
       ELSE UNCHANGED ledger
    /\ UNCHANGED <<role, modules, submissions, session>>

SwitchTx(u, m, commit_ok) ==
    LET res == SwitchOutcome(u, m) IN
    /\ last' = Response("switch", u, CommitOutcome(res, commit_ok))
    /\ IF res = "ok"
       THEN /\ sel' = Commit(commit_ok, sel,
                             [sel EXCEPT ![u] = SwitchRows(@, m)])
            /\ selected_module_id' = Commit(commit_ok, selected_module_id,
                             [selected_module_id EXCEPT ![u] = m])
            /\ UNCHANGED selected_at
       ELSE UNCHANGED ledger
    /\ UNCHANGED <<role, modules, submissions, session>>

\* (the IntegrityError of SwapOutcome is a commit the store always refuses)
SwapTx(u, m, rel, commit_ok) ==
    LET res == SwapOutcome(u, m, rel)
        written == res \in {"ok", "IntegrityError"}
        accepted == commit_ok /\ res = "ok"
    IN
    /\ last' = Response("swap", u, CommitOutcome(res, commit_ok))
    /\ IF written
       THEN /\ sel' = Commit(accepted, sel,
                             [sel EXCEPT ![u] = SwapRows(@, rel, m)])
            /\ selected_module_id' = Commit(accepted, selected_module_id,
                             [selected_module_id EXCEPT ![u] = m])
       ELSE UNCHANGED <<sel, selected_module_id>>
    /\ UNCHANGED selected_at
    /\ UNCHANGED <<role, modules, submissions, session>>

NextTx ==
    \/ \E u \in Users, m \in RequestIds, ok \in BOOLEAN : SelectTx(u, m, ok)
    \/ \E u \in Users, m \in Modules, ok \in BOOLEAN : ReleaseTx(u, m, ok)
    \/ \E u \in Users, m \in Modules, ok \in BOOLEAN : SwitchTx(u, m, ok)
    \/ \E u \in Users, m \in RequestIds, rel \in Modules, ok \in BOOLEAN :
           SwapTx(u, m, rel, ok)
    \/ \E u \in Users : Submit(u, "homework")

SpecTx == Init /\ [][NextTx]_vars

\* ------------------------------------------------------------- role changes
\* an id no row of the users table has
MissingUser == NumUsers + 1
InvalidRole == "invalid"

\* admin.py change_user_role: 404 for a missing user, 400 for a value that is
\* not a UserRole
ChangeRoleOutcome(target, r) ==
    IF target \notin Users THEN "NotFound"
    ELSE IF r \notin UserRole THEN "InvalidRole"
    ELSE "ok"

\* POST /admin/users/{user_id}/role, by an admin a (require_admin):
\* target_user.role = UserRole(new_role); db.commit()
change_user_role(a, target, r) ==
    LET res == ChangeRoleOutcome(target, r) IN
    /\ role[a] = "admin"
    /\ last' = Response("change_user_role", a, res)
    /\ role' = IF res = "ok" THEN [role EXCEPT ![target] = r] ELSE role
    /\ UNCHANGED <<modules, ledger, submissions, session>>

\* selections while an admin changes roles
NextRole ==
    \/ \E u \in Users, m \in RequestIds : Select(u, m)
    \/ \E a \in Users, target \in Users \cup {MissingUser},
          r \in UserRole \cup {InvalidRole} : change_user_role(a, target, r)

SpecRole == Init /\ [][NextRole]_vars

\* ---------------------------------------------------------------- PDF gate
\* get_module_pdf and download_module_pdf start with the same two tests: 404
\* for a missing module, 403 unless the caller is an admin or the legacy
\* pointer user.selected_module_id is the module.  "ok" is a request that has
\* passed them (what follows reads the Drive file and writes nothing).
PdfOutcome(u, m) ==
    IF m \notin DOMAIN modules THEN "NotFound"
    ELSE IF role[u] # "admin" /\ selected_module_id[u] # m THEN "Forbidden"
    ELSE "ok"

\* GET /modules/{module_id}/pdf
get_module_pdf(u, m) ==
    /\ last' = Response("get_module_pdf", u, PdfOutcome(u, m))
    /\ UNCHANGED <<role, modules, ledger, submissions, session>>

\* GET /modules/{module_id}/pdf/download
download_module_pdf(u, m) ==
    /\ last' = Response("download_module_pdf", u, PdfOutcome(u, m))
    /\ UNCHANGED <<role, modules, ledger, submissions, session>>

NextPdf ==
    \/ \E u \in Users, m \in Modules : Select(u, m)
    \/ \E u \in Users, m \in Modules : Release(u, m)
    \/ \E u \in Users, m \in Modules : Switch(u, m)
    \/ \E u \in Users, m \in Modules, rel \in Modules : Swap(u, m, rel)
    \/ \E u \in Users : Submit(u, "homework")
    \/ \E u \in Users, m \in RequestIds : get_module_pdf(u, m)
    \/ \E u \in Users, m \in RequestIds : download_module_pdf(u, m)

SpecPdf == Init /\ [][NextPdf]_vars

\* ---------------------------------------------------------------- dashboard
\* dashboard.py dashboard: a user who is not an admin and has not accepted the
\* confidentiality terms is redirected before anything else
DashboardOutcome(u, accepted_terms) ==
    IF ~accepted_terms /\ role[u] # "admin" THEN "Confidentiality" ELSE "ok"

\* "# If no active, make first one active": user_selections is ordered by
\* selected_at; only is_active of its first row is written
DashboardRows(rows) ==
    IF rows # <<>> /\ \A i \in DOMAIN rows : ~rows[i].is_active
    THEN [rows EXCEPT ![1] = Row(rows[1].module_id, TRUE)]
    ELSE rows

\* GET /dashboard
dashboard(u, accepted_terms) ==
    LET res == DashboardOutcome(u, accepted_terms) IN
    /\ last' = Response("dashboard", u, res)
    /\ sel' = IF res = "ok" THEN [sel EXCEPT ![u] = DashboardRows(@)] ELSE sel
    /\ UNCHANGED <<role, modules, selected_module_id, selected_at, submissions,
                   session>>

NextDashboard ==
    \/ \E u \in Users, m \in Modules : Select(u, m)
    \/ \E u \in Users, m \in Modules : Release(u, m)
    \/ \E u \in Users, m \in Modules : Switch(u, m)
    \/ \E u \in Users, m \in Modules, rel \in Modules : Swap(u, m, rel)
    \/ \E u \in Users : Submit(u, "homework")
    \/ \E u \in Users, accepted_terms \in BOOLEAN : dashboard(u, accepted_terms)

SpecDashboard == Init /\ [][NextDashboard]_vars

\* ================================================================== claims
LedgerOps == {"select", "switch", "release", "swap"}

\* the denial reasons of the four ledger handlers (their HTTPExceptions)
Denials ==
    {"NotFound", "AccessDenied", "AlreadySelected", "LimitReached", "ModuleFull",
     "NotSelected", "ReleaseNotFound", "ReleaseBlocked"}

\* C1. Per-user limit: in every reachable state every user holds at most 2
\* selection rows if a reviewer and at most 1 if a student or an admin.
C1_PerUserLimit ==
    \A u \in Users :
        Len(sel[u]) <= (IF role[u] = "reviewer" THEN 2 ELSE 1)

\* a reviewer at the limit of 2 has just been refused a third module
C1_Witness ==
    \E u \in Users :
        /\ role[u] = "reviewer"
        /\ Len(sel[u]) = 2
        /\ last = Response("select", u, "LimitReached")

\* C2. Active-selection invariant: after every completed request a user who
\* holds at least one selection row has exactly one row with is_active = true,
\* and a user without rows has none.
C2_ExactlyOneActive ==
    \A u \in Users :
        Cardinality(ActiveIn(sel, u)) = (IF Len(sel[u]) >= 1 THEN 1 ELSE 0)

\* C3. Module capacity: for every module the number of reviewers holding it is
\* at most max_reviewers when that is set, and the number of students holding
\* it is at most max_students when that is set.
C3_ModuleCapacity ==
    \A m \in DOMAIN modules :
        /\ modules[m].max_reviewers # NULL =>
               RoleCount(sel, role, m, "reviewer") <= modules[m].max_reviewers
        /\ modules[m].max_students # NULL =>
               RoleCount(sel, role, m, "student") <= modules[m].max_students

\* C4. Capacity race: however two concurrent Select calls of users of one role
\* on one module interleave, the committed number of rows of that role on the
\* module never exceeds the limit the module sets for the role.
C4_CapacityUnderRace ==
    \A m \in DOMAIN modules :
        /\ Truthy(modules[m].max_reviewers) =>
               RoleCount(sel, role, m, "reviewer") <= modules[m].max_reviewers
        /\ Truthy(modules[m].max_students) =>
               RoleCount(sel, role, m, "student") <= modules[m].max_students

\* C5. Legacy pointer: after every completed request selected_module_id of a
\* user is the module of the user's active row if the user holds any row, and
\* null if the user holds none; it never names a module the user does not hold.
C5_LegacyPointerInSync ==
    \A u \in Users :
        IF sel[u] = <<>>
        THEN selected_module_id[u] = NULL
        ELSE /\ selected_module_id[u] \in Held(u)
             /\ \E i \in DOMAIN sel[u] :
                    sel[u][i].is_active /\ sel[u][i].module_id = selected_module_id[u]

\* C6. No mutation on denial: a Select, Switch, Release or Swap that is denied
\* leaves every selection row, every is_active flag and every user's
\* selected_module_id and selected_at as they were before the call.
C6_NoMutationOnDenial ==
    [][(last'.op \in LedgerOps /\ last'.res \in Denials) => ledger' = ledger]_vars

\* a reviewer holding two modules was refused a swap for want of homework
C6_Witness ==
    /\ last.op = "swap"
    /\ last.res = "ReleaseBlocked"
    /\ Len(sel[last.user]) = 2

\* C7. Select idempotence: a Select(u, m) that immediately follows a successful
\* Select(u, m) is denied as already selected and leaves u's rows and legacy
\* pointer unchanged.  (After a successful Select(u, m) the newest row of u is
\* the row of m.)
C7_SelectIdempotent ==
    [][\A u \in Users, m \in Modules :
          ( /\ last = Response("select", u, "ok")
            /\ sel[u] # <<>>
            /\ sel[u][Len(sel[u])].module_id = m
            /\ Select(u, m) )
          => ( /\ last'.res = "AlreadySelected"
               /\ sel'[u] = sel[u]
               /\ selected_module_id'[u] = selected_module_id[u]
               /\ selected_at'[u] = selected_at[u] )]_vars

\* a Select was refused as already selected while the caller holds a row
C7_Witness ==
    /\ last.op = "select"
    /\ last.res = "AlreadySelected"
    /\ sel[last.user] # <<>>

\* C8. Select/Release round trip: from a user without rows and with a null
\* legacy pointer, Select(u, m) leads to the state in which u holds exactly the
\* active row of m; a successful Release(u, m) from there returns u to no rows,
\* selected_module_id = null and selected_at = null.
C8_SelectReleaseRoundTrip ==
    [][\A u \in Users, m \in Modules :
          ( /\ sel[u] = <<Row(m, TRUE)>>
            /\ selected_module_id[u] = m
            /\ HomeworkSubmitted(submissions, u, m)
            /\ Release(u, m) )
          => ( /\ last'.res = "ok"
               /\ sel'[u] = <<>>
               /\ selected_module_id'[u] = NULL
               /\ selected_at'[u] = NoTime )]_vars

\* C9. Homework gate: Release(u, A) of a held module is denied without any
\* change while no homework submission of u for A exists; once it exists,
\* Release(u, A) of u's only selection succeeds and leaves u without rows and
\* with a null legacy pointer.
C9_HomeworkGate ==
    [][\A u \in Users, m \in Modules :
          (m \in Held(u) /\ Release(u, m))
          => IF ~HomeworkSubmitted(submissions, u, m)
             THEN last'.res = "ReleaseBlocked" /\ ledger' = ledger
             ELSE Len(sel[u]) = 1 =>
                    ( /\ last'.res = "ok"
                      /\ sel'[u] = <<>>
                      /\ selected_module_id'[u] = NULL )]_vars

\* C10. Release policy of the tests: releasing a held module succeeds without a
\* homework submission (the row is removed, and selected_module_id becomes null
\* when it was the only row), and a swap whose other preconditions hold succeeds
\* without a homework submission for the module it releases.
C10_ReleaseWithoutHomework ==
    [][\A u \in Users, m \in Modules :
          /\ (m \in Held(u) /\ Release(u, m))
             => ( /\ last'.res = "ok"
                  /\ m \notin HeldIn(sel', u)
                  /\ Len(sel[u]) = 1 => selected_module_id'[u] = NULL )
          /\ \A rel \in Modules :
               ( /\ rel \in Held(u)
                 /\ m \notin Held(u)
                 /\ can_user_view_module(role[u], modules[m].visibility)
                 /\ ~SwapFull(sel, role, modules, u, m)
                 /\ Swap(u, m, rel) )
               => ( /\ last'.res = "ok"
                    /\ HeldIn(sel', u) = (Held(u) \ {rel}) \cup {m} )]_vars

\* C11. Swap result: a reviewer who holds exactly A and B, has submitted the
\* homework of A, and asks Swap(release = A, select = C) for a module C that
\* exists, is visible to reviewers, is not held by the reviewer and has a free
\* reviewer slot, is served (no limit-reached denial) and ends holding exactly
\* B and C, with the row of C the only active row and selected_module_id = C.
C11_SwapResult ==
    [][\A u \in Users, c \in Modules, a \in Modules :
          ( /\ role[u] = "reviewer"
            /\ Len(sel[u]) = 2
            /\ a \in Held(u)
            /\ c \notin Held(u)
            /\ HomeworkSubmitted(submissions, u, a)
            /\ can_user_view_module(role[u], modules[c].visibility)
            /\ ( \/ modules[c].max_reviewers = NULL
                 \/ RoleCount(sel, role, c, "reviewer") < modules[c].max_reviewers )
            /\ Swap(u, c, a) )
          => ( /\ last'.res = "ok"
               /\ HeldIn(sel', u) = (Held(u) \ {a}) \cup {c}
               /\ Len(sel'[u]) = 2
               /\ \A i \in DOMAIN sel'[u] :
                      sel'[u][i].is_active <=> sel'[u][i].module_id = c
               /\ selected_module_id'[u] = c )]_vars

\* a reviewer's swap was served: two rows, the newer one alone active
C11_Witness ==
    /\ last.op = "swap"
    /\ last.res = "ok"
    /\ role[last.user] = "reviewer"
    /\ Len(sel[last.user]) = 2
    /\ ~sel[last.user][1].is_active
    /\ sel[last.user][2].is_active
    /\ selected_module_id[last.user] = sel[last.user][2].module_id

\* C12. Switch effect: for a user holding A (active) and B (inactive),
\* Switch(B) is served, makes the row of B the only active row, sets
\* selected_module_id = B and leaves the set of held modules as it was; a
\* Switch to a module the user does not hold is denied as not selected and
\* changes nothing.
C12_SwitchEffect ==
    [][\A u \in Users, b \in Modules :
          Switch(u, b) =>
            IF b \in Held(u)
            THEN ( (/\ Len(sel[u]) = 2
                    /\ \E i \in DOMAIN sel[u] :
                          sel[u][i].module_id = b /\ ~sel[u][i].is_active
                    /\ \E i \in DOMAIN sel[u] :
                          sel[u][i].module_id # b /\ sel[u][i].is_active)
                   => ( /\ last'.res = "ok"
                        /\ HeldIn(sel', u) = Held(u)
                        /\ Len(sel'[u]) = Len(sel[u])
                        /\ \A i \in DOMAIN sel'[u] :
                               sel'[u][i].is_active <=> sel'[u][i].module_id = b
                        /\ selected_module_id'[u] = b ) )
            ELSE last'.res = "NotSelected" /\ ledger' = ledger]_vars

\* a switch back to the older of two rows was served
C12_Witness ==
    /\ last.op = "switch"
    /\ last.res = "ok"
    /\ Len(sel[last.user]) = 2
    /\ sel[last.user][1].is_active
    /\ ~sel[last.user][2].is_active
    /\ selected_module_id[last.user] = sel[last.user][1].module_id

\* C13. Release with a remaining selection: when a user holding two modules
\* releases one of them and the release is served, the other row is still held
\* and is active and selected_module_id names it; when the released row was the
\* user's only row, selected_module_id and selected_at become null.
C13_ReleaseRemaining ==
    [][\A u \in Users, m \in Modules :
          (Release(u, m) /\ last'.res = "ok")
          => /\ Len(sel[u]) = 2 =>
                  \E o \in Held(u) \ {m} :
                      /\ sel'[u] = <<Row(o, TRUE)>>
                      /\ selected_module_id'[u] = o
             /\ Len(sel[u]) = 1 =>
                  /\ selected_module_id'[u] = NULL
                  /\ selected_at'[u] = NoTime]_vars

\* C14. Select effect: a Select(u, m) that is served adds one row to u's rows,
\* the row of m, which becomes u's only active row; the rows u held before stay
\* held and are inactive; selected_module_id of u becomes m; the rows of every
\* other user are as before.
C14_SelectEffect ==
    [][\A u \in Users, m \in Modules :
          (Select(u, m) /\ last'.res = "ok")
          => ( /\ Len(sel'[u]) = Len(sel[u]) + 1
               /\ HeldIn(sel', u) = Held(u) \cup {m}
               /\ m \notin Held(u)
               /\ \A i \in DOMAIN sel'[u] :
                      sel'[u][i].is_active <=> sel'[u][i].module_id = m
               /\ selected_module_id'[u] = m
               /\ \A v \in Users \ {u} : sel'[v] = sel[v] )]_vars

\* a second module was selected: the older row inactive, the new one active
C14_Witness ==
    /\ last.op = "select"
    /\ last.res = "ok"
    /\ Len(sel[last.user]) = 2
    /\ ~sel[last.user][1].is_active
    /\ sel[last.user][2].is_active
    /\ selected_module_id[last.user] = sel[last.user][2].module_id

\* C15. Capacity policy: a Select by a reviewer or a student that reaches the
\* capacity test is served iff the limit of the caller's role (max_reviewers
\* for a reviewer, max_students for a student) is null or the number of rows of
\* users of that role on the module is below the limit, and is denied as
\* module full otherwise; a limit of 0 is a limit like any other.
C15_CapacityPolicy ==
    [][\A u \in Users, m \in Modules :
          ( /\ role[u] \in {"reviewer", "student"}
            /\ Select(u, m)
            /\ last'.res \in {"ok", "ModuleFull"} )
          => LET limit == IF role[u] = "reviewer"
                          THEN modules[m].max_reviewers
                          ELSE modules[m].max_students
                 count == RoleCount(sel, role, m, role[u])
             IN IF limit = NULL \/ count < limit
                THEN last'.res = "ok"
                ELSE last'.res = "ModuleFull"]_vars

\* C16. Visibility gate: can_user_view_module admits an admin to every
\* visibility, a reviewer to pilot_review and active only and a student to
\* active only; a Select of an existing module by a user whom this table does
\* not admit is denied as access denied and adds no selection row.
C16_VisibilityGate ==
    [][/\ \A r \in UserRole, v \in ModuleVisibility :
             can_user_view_module(r, v) <=>
                 \/ r = "admin"
                 \/ r = "reviewer" /\ v \in {"pilot_review", "active"}
                 \/ r = "student" /\ v = "active"
       /\ \A u \in Users, m \in Modules :
             ( /\ Select(u, m)
               /\ ~ ( \/ role[u] = "admin"
                      \/ role[u] = "reviewer" /\
                             modules[m].visibility \in {"pilot_review", "active"}
                      \/ role[u] = "student" /\ modules[m].visibility = "active" ) )
             => ( /\ last'.res = "AccessDenied"
                  /\ sel' = sel
                  /\ selected_module_id' = selected_module_id )]_vars

\* a reviewer was refused a module of a catalog of drafts and archives only
C16_Witness ==
    /\ last.op = "select"
    /\ last.res = "AccessDenied"
    /\ role[last.user] = "reviewer"
    /\ \A m \in DOMAIN modules : modules[m].visibility \in {"draft", "archived"}
    /\ \E m \in DOMAIN modules : modules[m].visibility = "draft"

\* C17. Swap of a module already held: Swap(u, release = A, select = B) by a
\* user who holds A and B (B = A included), with the homework of A submitted
\* and B not full, is denied as already selected and changes nothing; the
\* response is never a storage error and u never ends with fewer rows.
C17_SwapAlreadyHeld ==
    [][\A u \in Users, b \in Modules, a \in Modules :
          ( /\ a \in Held(u)
            /\ b \in Held(u)
            /\ HomeworkSubmitted(submissions, u, a)
            /\ ~SwapFull(sel, role, modules, u, b)
            /\ Swap(u, b, a) )
          => ( /\ last'.res = "AlreadySelected"
               /\ last'.res # "IntegrityError"
               /\ ledger' = ledger
               /\ Len(sel'[u]) >= Len(sel[u]) )]_vars

\* C18. Swap capacity: a Swap by a reviewer or a student that reaches the
\* capacity test is denied as module full iff the limit of the caller's own
\* role on the module to select is set and the number of rows of users of that
\* role on it, counted before the swap, has reached the limit.
C18_SwapCapacityOfRole ==
    [][\A u \in Users, m \in Modules, rel \in Modules :
          ( /\ role[u] \in {"reviewer", "student"}
            /\ m \notin Held(u)
            /\ Swap(u, m, rel)
            /\ last'.res \in {"ok", "ModuleFull"} )
          => LET limit == IF role[u] = "reviewer"
                          THEN modules[m].max_reviewers
                          ELSE modules[m].max_students
                 count == RoleCount(sel, role, m, role[u])
             IN (last'.res = "ModuleFull") <=> (limit # NULL /\ count >= limit)]_vars

C20_DeleteCascade ==
    [][\A a \in Users, m \in Modules :
          (m \in DOMAIN modules /\ DeleteModule(a, m))
          => ( /\ last'.res = "ok"
               /\ m \notin DOMAIN modules'
               /\ \A u \in Users :
                      /\ m \notin HeldIn(sel', u)
                      /\ selected_module_id'[u] # m
               /\ \A row \in BagToSet(submissions') : row[2] # m )]_vars

\* C21. Notification ordering: a notification becomes due only by a Select or
\* Swap that was served and whose row and legacy pointer are committed, one per
\* such call and none for a call that is denied or fails; the notification step
\* itself, whatever its outcome (a failed POST included), leaves the selection
\* rows and the legacy pointer as committed and ends the session, so that a
\* notification that is due is emitted once; and a notification that is due is
\* eventually emitted.
C21_NotifyAfterCommit ==
    /\ [][/\ \A s \in Sessions :
               (session'[s] # session[s] /\ session'[s].pc = "notify")
               => LET u == session'[s].user
                      m == session'[s].module
                  IN /\ last' \in {Response("select", u, "ok"),
                                   Response("swap", u, "ok")}
                     /\ m \notin Held(u)
                     /\ sel'[u] # <<>>
                     /\ sel'[u][Len(sel'[u])] = Row(m, TRUE)
                     /\ selected_module_id'[u] = m
                     /\ \A t \in Sessions \ {s} : session'[t] = session[t]
          /\ (last'.op \in {"select", "swap"} /\ last'.res # "ok")
               => session' = session
          /\ (last'.op \in {"select", "swap"} /\ last'.res = "ok" /\ ledger' # ledger)
               => \E s \in Sessions :
                      session[s] = Idle /\ session'[s].pc = "notify"
          /\ \A s \in Sessions :
               Notify(s) => ( /\ ledger' = ledger
                              /\ last'.user = session[s].user
                              /\ session'[s] = Idle )]_vars
    /\ \A s \in Sessions : (session[s].pc = "notify") ~> (session[s] = Idle)

\* the POST to the webhook failed after a selection was committed
C21_Witness ==
    /\ last.op = "notify"
    /\ last.res = "RequestError"
    /\ sel[last.user] # <<>>

\* C22. Switch among held modules: Switch(u, m) by a user who holds m is
\* served, makes the row of m the only active row and sets selected_module_id
\* to m, whatever the visibility of m has become (draft and archived included)
\* and however many users hold m.
C22_SwitchUnconditional ==
    [][\A u \in Users, m \in Modules :
          (m \in Held(u) /\ Switch(u, m))
          => ( /\ last'.res = "ok"
               /\ HeldIn(sel', u) = Held(u)
               /\ \A i \in DOMAIN sel'[u] :
                      sel'[u][i].is_active <=> sel'[u][i].module_id = m
               /\ selected_module_id'[u] = m )]_vars

\* a reviewer switched to a held module that is now a draft or archived and
\* whose reviewer limit is reached
C22_Witness ==
    /\ last.op = "switch"
    /\ last.res = "ok"
    /\ role[last.user] = "reviewer"
    /\ LET m == selected_module_id[last.user]
       IN /\ m \in Held(last.user)
          /\ modules[m].visibility \in {"draft", "archived"}
          /\ modules[m].max_reviewers # NULL
          /\ RoleCount(sel, role, m, "reviewer") >= modules[m].max_reviewers

\* C23. Submission uniqueness: the submissions table never holds two rows of
\* one (user, module, type); a submission that is served leaves exactly one row
\* of its triple (a repeated one updates the row it finds) and leaves every
\* other row, the row of the other type for the same user and module included,
\* as it was.
C23_SubmissionUnique ==
    /\ [](\A row \in BagToSet(submissions) : CopiesIn(row, submissions) = 1)
    /\ [][\A u \in Users, t \in SubmissionTypes :
             (SubmitWithin(u, t, MaxSubmissionRows) /\ last'.res = "ok")
             => LET row == <<u, selected_module_id[u], t>>
                IN /\ CopiesIn(row, submissions') = 1
                   /\ \A x \in BagToSet(submissions) \cup BagToSet(submissions') :
                          x # row => CopiesIn(x, submissions') = CopiesIn(x, submissions)]_vars

\* the in_class and the homework submission of one user for one module are
\* both stored
C23_Witness ==
    /\ last.op = "submit"
    /\ last.res = "ok"
    /\ \E m \in Modules :
          /\ CopiesIn(<<last.user, m, "in_class">>, submissions) = 1
          /\ CopiesIn(<<last.user, m, "homework">>, submissions) = 1

\* C24. Unique pair under concurrency: however concurrent Select calls
\* interleave, no user ever has two committed rows of one module, and a Select
\* whose INSERT meets the committed row of its pair fails and leaves the rows
\* (none deactivated), the legacy pointer and selected_at as they were.
C24_UniquePairUnderRace ==
    /\ [](\A u \in Users : Cardinality(Held(u)) = Len(sel[u]))
    /\ [][\A s \in Sessions :
             (SelectEnd(s) /\ session[s].module \in Held(session[s].user))
             => (last'.res # "ok" /\ ledger' = ledger)]_vars

\* the second of two concurrent Selects of one pair failed on the constraint
\* while the first one's row stays active
C24_Witness ==
    /\ last.op = "select"
    /\ last.res = "IntegrityError"
    /\ \E i \in DOMAIN sel[last.user] : sel[last.user][i].is_active

\* C26. Same-user concurrency: however two concurrent Select calls of one user
\* on two different modules interleave, the user has at most 2 committed rows
\* if a reviewer and at most 1 otherwise, and exactly one committed row is
\* active when the user has any.
C26_SameUserRace ==
    \A u \in Users :
        /\ Len(sel[u]) <= max_modules(role[u])
        /\ Len(sel[u]) >= 1 => Cardinality(ActiveIn(sel, u)) = 1

\* C25. All-or-nothing on storage failure: a Select, Switch, Release or Swap
\* whose commit fails leaves every selection row, every is_active flag, the
\* legacy pointers and selected_at as they were; in particular no Swap, served
\* or failed, leaves its caller with a row less (the released row gone and the
\* new row missing).
C25_AllOrNothing ==
    [][/\ (last'.op \in LedgerOps /\ last'.res \in {"StorageError", "IntegrityError"})
            => ledger' = ledger
       /\ last'.op = "swap"
            => Len(sel'[last'.user]) = Len(sel[last'.user])]_vars

\* the commit of a swap by a user holding two modules failed
C25_Witness ==
    /\ last.op = "swap"
    /\ last.res = "StorageError"
    /\ Len(sel[last.user]) = 2

\* C27. Role change and the ledger: a change_user_role(u, r) that is served
\* changes u.role only (no selection row, is_active flag, legacy pointer or
\* selected_at), and in the state after it u holds at most 2 rows if r is
\* reviewer and at most 1 otherwise, and on every module the rows of reviewers
\* and of students are within max_reviewers and max_students where these are
\* set.
C27_RoleChangeKeepsLimits ==
    [][\A a \in Users, u \in Users, r \in UserRole :
          change_user_role(a, u, r)
          => ( /\ ledger' = ledger
               /\ \A v \in Users \ {u} : role'[v] = role[v]
               /\ Len(sel'[u]) <= max_modules(role'[u])
               /\ \A m \in DOMAIN modules :
                    /\ Truthy(modules[m].max_reviewers) =>
                         RoleCount(sel', role', m, "reviewer") <= modules[m].max_reviewers
                    /\ Truthy(modules[m].max_students) =>
                         RoleCount(sel', role', m, "student") <= modules[m].max_students )]_vars

\* C28. PDF access gate: a get_module_pdf or download_module_pdf of a user who
\* is not an admin passes the gate for module m only if the user holds a
\* selection row of m and is refused (403) otherwise; so after the user has
\* released m or swapped it away the PDF of m is refused.
C28_PdfGate ==
    [][\A u \in Users, m \in Modules :
          ( /\ role[u] # "admin"
            /\ m \notin Held(u)
            /\ (get_module_pdf(u, m) \/ download_module_pdf(u, m)) )
          => last'.res = "Forbidden"]_vars

\* C29. Denial precedence in Select: the response of Select(u, m) names the
\* first test that fails in the order module not found, access denied, already
\* selected, limit reached, module full, and is a success only if none fails:
\* a missing module is not found whatever the caller holds; a module the caller
\* may not view is access denied also when the caller holds it or is at the
\* limit; a held module is already selected also at the limit; a module not
\* held is limit reached at the limit also when it is full.
C29_SelectPrecedence ==
    [][\A u \in Users, m \in RequestIds :
          Select(u, m) =>
            LET exists == m \in DOMAIN modules
                viewable == can_user_view_module(role[u], modules[m].visibility)
                held == m \in Held(u)
                atlimit == Len(sel[u]) >= max_modules(role[u])
                full == SelectFull(sel, role, modules, u, m)
            IN /\ ~exists => last'.res = "NotFound"
               /\ (exists /\ ~viewable) => last'.res = "AccessDenied"
               /\ (exists /\ viewable /\ held) => last'.res = "AlreadySelected"
               /\ (exists /\ viewable /\ ~held /\ atlimit) => last'.res = "LimitReached"
               /\ (exists /\ viewable /\ ~held /\ ~atlimit /\ full) =>
                      last'.res = "ModuleFull"
               /\ last'.res = "ok" =>
                      (exists /\ viewable /\ ~held /\ ~atlimit /\ ~full)]_vars

\* a reviewer holding two modules was refused for the limit while the one
\* module left is visible to reviewers and full
C29_Witness ==
    /\ last.op = "select"
    /\ last.res = "LimitReached"
    /\ role[last.user] = "reviewer"
    /\ Len(sel[last.user]) = 2
    /\ \A m \in Modules \ Held(last.user) :
          /\ m \in DOMAIN modules
          /\ can_user_view_module("reviewer", modules[m].visibility)
          /\ SelectFull(sel, role, modules, last.user, m)

\* C30. Dashboard repair: a dashboard load that is served for a user who holds
\* rows none of which is active marks the earliest row active and changes no
\* other row, after which the user has exactly one active row and
\* selected_module_id names the module of that row; for a user with an active
\* row (or without rows) it changes nothing.
C30_DashboardRepair ==
    [][\A u \in Users, accepted_terms \in BOOLEAN :
          (dashboard(u, accepted_terms) /\ last'.res = "ok")
          => IF sel[u] # <<>> /\ ActiveIn(sel, u) = {}
             THEN /\ sel'[u] = [sel[u] EXCEPT ![1] = Row(sel[u][1].module_id, TRUE)]
                  /\ ActiveIn(sel', u) = {1}
                  /\ selected_module_id'[u] = sel'[u][1].module_id
             ELSE ledger' = ledger]_vars

====
